---- MODULE Spec2Model ----
(***************************************************************************)
(* The epoll servers of chapter05: server9.c (epoll readiness loop, ring    *)
(* queues, send threads) and server4.c (epoll readiness loop with the      *)
(* response sent inline); daemonize (part_000); the servers that take a    *)
(* lock around accept, server8.c (threads, mutex) and server7.c            *)
(* (processes, lockf); the select server (part_002) and server3.c (poll);  *)
(* and server6.c (one thread per connection).                              *)
(*                                                                         *)
(* Bytes are numbers (their ASCII codes).  A C array buf[BUFSZ] is a       *)
(* sequence of BUFSZ + 1 bytes: C index k is element k + 1, and the last   *)
(* element is the byte that follows the array in memory (in server9 the    *)
(* padding between buf and len of struct queue_data).                      *)
(***************************************************************************)
EXTENDS Integers, Sequences, FiniteSets, TLC

----------------------------------------------------------------------------
(* Sizes.  The program's values are 512, 4096 and 20; the model scales     *)
(* them down, every definition below is written for any value.             *)

BUFSZ == 7

MAXQUEUESZ == 2

MAXSENDER == 2

MAX_CHILD == 3

(* How many connections the clients open in all, and how many recv calls   *)
(* the server makes in all.                                                *)
MaxConn == 4

MaxRecv == 3

(* daemonize closes the descriptors 0 .. MAXFD - 1 (64 in part_000). *)
MAXFD == 4

NUL == 0

LF == 10

CR == 13

(* ":OK\r\n" *)
SUFFIX == <<58, 79, 75, 13, 10>>

(* The bytes a client may send: NUL, LF, CR, 'a', 'b'. *)
Bytes == {NUL, LF, CR, 97, 98}

(* The descriptors of a freshly started server: 0..2 are the standard      *)
(* streams, 3 is the listening socket and the epoll instance comes next.   *)
EPOLLFD == 4

Min(a, b) == IF a < b THEN a ELSE b

----------------------------------------------------------------------------
(* The C string functions and the response built from one read.            *)

(* strlen(mem): the index of the first NUL.  A scan that finds none in the *)
(* array and the byte after it stops there.                                *)
strlen(mem) ==
    LET F[k \in 0..Len(mem)] ==
            IF k = Len(mem) THEN k
            ELSE IF mem[k + 1] = NUL THEN k
            ELSE F[k + 1]
    IN  F[0]

(* strpbrk(mem, "\r\n"): the index of the first CR or LF before the first  *)
(* NUL, -1 for a null pointer.                                             *)
strpbrk(mem) ==
    LET F[k \in 0..Len(mem)] ==
            IF k = Len(mem) THEN -1
            ELSE IF mem[k + 1] = NUL THEN -1
            ELSE IF mem[k + 1] \in {CR, LF} THEN k
            ELSE F[k + 1]
    IN  F[0]

(* mem with C index k set to byte b *)
Poke(mem, k, b) == [mem EXCEPT ![k + 1] = b]

(* buf[len] = '\0'.  With len = -1 the byte written is the one before buf, *)
(* the top byte of the descriptor number stored there, which is 0 already. *)
Terminate(mem, n) == IF n >= 0 THEN Poke(mem, n, NUL) ELSE mem

StripNothing(mem) == mem

(* if ((ptr = strpbrk(buf, "\r\n")) != NULL) *ptr = '\0' *)
StripAtBreak(mem) ==
    IF strpbrk(mem) # -1 THEN Poke(mem, strpbrk(mem), NUL) ELSE mem

(* The first loop of mystrlcat: pd runs to the first NUL of dst, at most   *)
(* size bytes.                                                             *)
DstLen(dst, size) ==
    LET F[k \in 0..size] ==
            IF k = size THEN k
            ELSE IF dst[k + 1] = NUL THEN k
            ELSE F[k + 1]
    IN  F[0]

(* mystrlcat(dst, src, size): the memory of dst afterwards.  src is copied *)
(* while pd < pde = dst + size - 1, the rest up to pde is filled with NUL. *)
mystrlcat(dst, src, size) ==
    LET dlen  == DstLen(dst, size)
        ncopy == Min(Len(src), size - 1 - dlen)
    IN  IF size - dlen = 0 THEN dst
        ELSE [k \in 1..Len(dst) |->
                IF k - 1 < dlen THEN dst[k]
                ELSE IF k - 1 < dlen + ncopy THEN src[k - dlen]
                ELSE IF k - 1 <= size - 1 THEN NUL
                ELSE dst[k]]

(* recv(fd, buf, sizeof(buf), 0) returning Len(payload) bytes *)
RecvInto(mem, bytes) ==
    [k \in 1..Len(mem) |-> IF k <= Len(bytes) THEN bytes[k] ELSE mem[k]]

(* The buffer after the responder has terminated it at len, cut it at the  *)
(* first CR or LF and appended the suffix.                                 *)
BuildResponse(mem, n) ==
    mystrlcat(StripAtBreak(Terminate(mem, n)), SUFFIX, BUFSZ)

(* The bytes send(acc, buf, strlen(buf), 0) transmits *)
Transmitted(mem) == SubSeq(mem, 1, strlen(mem))

----------------------------------------------------------------------------
(* State.                                                                  *)

VARIABLES
    prog,       \* the program that runs: "server9", "server4", "send_recv",
                \* "daemonize", "server8", "server7", "select", "server3",
                \* "server6"
    pc,         \* where accept_loop is
    count,      \* accept_loop's count
    epoll,      \* the connection descriptors registered in epollfd
    fdtab,      \* descriptor -> c: open on connection c; -c: closed, c had it
                \*               last; 0: never opened
    acc,        \* accept_loop's acc: the descriptor accept returned last
    fd,         \* server9: the block's fd while an event of a connection is
                \* handled, -1 outside the block
    intr,       \* the last recv or accept returned -1 with errno EINTR
    g_queue,    \* qi -> [front, last, data], data: slot -> [acc, buf, len]
    spc,        \* qi -> where send_thread(qi) is
    si,         \* qi -> send_thread(qi)'s i
    nconn,      \* connections accepted so far (they are numbered 1, 2, ...)
    nread,      \* recv calls so far
    req,        \* server9: the bytes the read being handled returned
    admitted,   \* connections registered at accept
    rejected,   \* connections closed at accept as "connection is full"
    closes,     \* connection -> close() calls on its descriptor
    deregs,     \* connection -> successful EPOLL_CTL_DEL calls
    decs,       \* connection -> count-- executed for it
    readLog,    \* connection -> the requests read from it, in order
    sentLog,    \* connection -> the responses transmitted on it, in order
    enqLog,     \* qi -> the entries published to the ring, in order
    deqLog,     \* qi -> the entries send_thread(qi) popped, in order
    buf,        \* send_recv's buf
    len,        \* send_recv's len
    rpc,        \* where the send_recv call is
    payload,    \* the bytes the peer sent to that call
    out,        \* the bytes that call transmitted
    nochdir,    \* daemonize's argument nochdir
    noclose,    \* daemonize's argument noclose
    proc,       \* process -> its state in daemonize: where it is, what it
                \* returned, its working directory, descriptors, session
    lk,         \* server8 and server7: the accept lock, the listening
                \* socket's backlog and where each thread or process is
    mx,         \* the select server and server3: child[], child_no, the
                \* descriptors the wait reported, targets[] and the index i
    th          \* server6: connection -> where its send_recv_thread is

loopVars  == <<pc, count, epoll, fdtab, acc, fd>>
queueVars == <<g_queue, spc, si>>
histVars  == <<nconn, nread, req, admitted, rejected, closes, deregs, decs,
               readLog, sentLog, enqLog, deqLog>>
callVars  == <<buf, len, rpc, payload, out>>
daemonVars == <<nochdir, noclose, proc>>
serverVars == <<prog, intr, loopVars, queueVars, histVars, callVars>>
laterVars == <<lk, mx, th>>
otherVars == <<daemonVars, laterVars>>
vars      == <<serverVars, otherVars>>

QI    == 0..(MAXSENDER - 1)
SLOTS == 0..(MAXQUEUESZ - 1)
CONNS == 1..MaxConn
FDS   == (EPOLLFD + 1)..(EPOLLFD + MaxConn)

QUEUE_NEXT(i_) == (i_ + 1) % MAXQUEUESZ

(* A buffer of static storage: all zero *)
ZeroBuf == [k \in 1..(BUFSZ + 1) |-> NUL]

(* The request the n-th recv call of a server run returns when it returns  *)
(* data: one letter and CR LF, a different letter for every call.          *)
Request(n) == <<96 + n, CR, LF>>

IsOpen(f) == f \in FDS /\ fdtab[f] > 0

(* The connection descriptor f is or was last open on, 0 for none *)
Owner(f) == IF f \notin FDS THEN 0 ELSE IF fdtab[f] < 0 THEN -fdtab[f] ELSE fdtab[f]

(* accept returns the lowest descriptor that is not open *)
LowestFree == CHOOSE f \in FDS : ~IsOpen(f) /\ \A g \in FDS : g < f => IsOpen(g)

InitLoop ==
    /\ pc = "epoll_wait"
    /\ count = 0
    /\ epoll = {}
    /\ fdtab = [f \in FDS |-> 0]
    /\ acc = -1
    /\ fd = -1
    /\ intr = FALSE

InitQueue ==
    /\ g_queue = [q \in QI |->
                    [front |-> 0, last |-> 0,
                     data |-> [s \in SLOTS |-> [acc |-> 0, buf |-> ZeroBuf, len |-> 0]]]]
    /\ spc = [q \in QI |-> "lock"]
    /\ si = [q \in QI |-> 0]

InitHist ==
    /\ nconn = 0
    /\ nread = 0
    /\ req = <<>>
    /\ admitted = {}
    /\ rejected = {}
    /\ closes = [c \in CONNS |-> 0]
    /\ deregs = [c \in CONNS |-> 0]
    /\ decs = [c \in CONNS |-> 0]
    /\ readLog = [c \in CONNS |-> <<>>]
    /\ sentLog = [c \in CONNS |-> <<>>]
    /\ enqLog = [q \in QI |-> <<>>]
    /\ deqLog = [q \in QI |-> <<>>]

InitCall ==
    /\ buf = ZeroBuf
    /\ len = 0
    /\ rpc = "idle"
    /\ payload = <<>>
    /\ out = <<>>

----------------------------------------------------------------------------
(* accept_loop: the listening socket is ready.  One event of the events    *)
(* array is handled per step, in the order epoll_wait returned them.       *)

Server == prog \in {"server9", "server4"}

IsFullAboveMax(n) == n > MAX_CHILD

(* A limit that admits connections until count reaches MAX_CHILD *)
IsFullAtMax(n) == n >= MAX_CHILD

(* if (count + 1 >= MAX_CHILD): "connection is full" *)
IsFull(n) == n + 1 >= MAX_CHILD

Bump(f, c) == IF c \in DOMAIN f THEN [f EXCEPT ![c] = @ + 1] ELSE f

(* A close that leaves the descriptor open *)
NotClosed(f) == fdtab

(* The descriptor table after close(f) *)
Closed(f) == IF IsOpen(f) THEN [fdtab EXCEPT ![f] = -fdtab[f]] ELSE fdtab

ReleaseNoDecrement(f) ==
    /\ epoll' = epoll \ {f}
    /\ fdtab' = Closed(f)
    /\ count' = count
    /\ deregs' = Bump(deregs, Owner(f))
    /\ closes' = Bump(closes, Owner(f))
    /\ decs' = decs

(* EPOLL_CTL_DEL succeeded on f; close(f); count-- *)
Release(f) ==
    /\ epoll' = epoll \ {f}
    /\ fdtab' = Closed(f)
    /\ count' = count - 1
    /\ deregs' = Bump(deregs, Owner(f))
    /\ closes' = Bump(closes, Owner(f))
    /\ decs' = Bump(decs, Owner(f))

(* accept succeeded while the connection limit is reached: close(acc) *)
AcceptFull ==
    /\ Server /\ pc = "epoll_wait" /\ nconn < MaxConn
    /\ IsFull(count)
    /\ nconn' = nconn + 1
    /\ acc' = LowestFree
    /\ rejected' = rejected \cup {nconn + 1}
    /\ fdtab' = [fdtab EXCEPT ![LowestFree] = -(nconn + 1)]
    /\ closes' = Bump(closes, nconn + 1)
    /\ UNCHANGED <<prog, otherVars, intr, pc, count, epoll, fd, queueVars, callVars,
                   nread, req, admitted, deregs, decs,
                   readLog, sentLog, enqLog, deqLog>>

(* accept succeeded and epoll_ctl(EPOLL_CTL_ADD) succeeded: count++ *)
AcceptRegister ==
    /\ Server /\ pc = "epoll_wait" /\ nconn < MaxConn
    /\ ~IsFull(count)
    /\ nconn' = nconn + 1
    /\ acc' = LowestFree
    /\ fdtab' = [fdtab EXCEPT ![LowestFree] = nconn + 1]
    /\ epoll' = epoll \cup {LowestFree}
    /\ count' = count + 1
    /\ admitted' = admitted \cup {nconn + 1}
    /\ UNCHANGED <<prog, otherVars, intr, pc, fd, queueVars, callVars,
                   nread, req, rejected, closes, deregs, decs,
                   readLog, sentLog, enqLog, deqLog>>

(* accept succeeded and epoll_ctl(EPOLL_CTL_ADD) failed: close(acc),       *)
(* close(epollfd), return                                                  *)
AcceptAddFails ==
    /\ Server /\ pc = "epoll_wait" /\ nconn < MaxConn
    /\ ~IsFull(count)
    /\ nconn' = nconn + 1
    /\ acc' = LowestFree
    /\ fdtab' = [fdtab EXCEPT ![LowestFree] = -(nconn + 1)]
    /\ closes' = Bump(closes, nconn + 1)
    /\ pc' = "returned"
    /\ UNCHANGED <<prog, otherVars, intr, count, epoll, fd, queueVars, callVars,
                   nread, req, admitted, rejected, deregs, decs,
                   readLog, sentLog, enqLog, deqLog>>

(* epoll_wait returned 0 (timeout) or -1, or accept returned -1: nothing   *)
(* is changed and the loop polls again.                                    *)
PollAgain ==
    /\ Server /\ pc = "epoll_wait"
    /\ UNCHANGED vars

(* The same rounds of the loop told apart, each with the statement it      *)
(* reaches: case 0 after a timeout, perror after a failed epoll_wait or a  *)
(* failed accept, and continue, without perror, after an accept that       *)
(* failed with errno EINTR.                                                *)

(* Where accept_loop is after a poll or an accept that brought nothing *)
Idle == {"case 0", "perror", "continue"}

(* epoll_wait returned 0 *)
PollTimeout ==
    /\ Server /\ pc = "epoll_wait"
    /\ pc' = "case 0"
    /\ UNCHANGED <<prog, otherVars, intr, count, epoll, fdtab, acc, fd, queueVars, histVars, callVars>>

(* epoll_wait returned -1: perror("epoll_wait") *)
PollError ==
    /\ Server /\ pc = "epoll_wait"
    /\ pc' = "perror"
    /\ UNCHANGED <<prog, otherVars, intr, count, epoll, fdtab, acc, fd, queueVars, histVars, callVars>>

(* An accept that reports its failure and ends the loop, as a failed       *)
(* epoll_ctl does                                                          *)
AcceptFailsEndsLoop(eintr) ==
    /\ Server /\ pc = "epoll_wait"
    /\ acc' = -1
    /\ intr' = eintr
    /\ pc' = "returned"
    /\ UNCHANGED <<prog, otherVars, count, epoll, fdtab, fd, queueVars, histVars, callVars>>

(* acc = accept(...) returned -1, with errno EINTR or another:             *)
(* if (errno != EINTR) perror("accept"); continue                          *)
AcceptFails(eintr) ==
    /\ Server /\ pc = "epoll_wait"
    /\ acc' = -1
    /\ intr' = eintr
    /\ pc' = IF eintr THEN "continue" ELSE "perror"
    /\ UNCHANGED <<prog, otherVars, count, epoll, fdtab, fd, queueVars, histVars, callVars>>

(* break, or continue: on to the next event or the next epoll_wait *)
LoopAgain ==
    /\ Server /\ pc \in Idle
    /\ pc' = "epoll_wait"
    /\ intr' = FALSE
    /\ UNCHANGED <<prog, otherVars, count, epoll, fdtab, acc, fd, queueVars, histVars, callVars>>

----------------------------------------------------------------------------
(* server9 accept_loop: a registered connection is ready.                  *)

Slot(q, s) == g_queue[q].data[s]

(* A store that lands in the slot of the next ring *)
SetSlotOfNextRing(q, s, e) == [g_queue EXCEPT ![(q + 1) % MAXSENDER].data[s] = e]

SetSlot(q, s, e) == [g_queue EXCEPT ![q].data[s] = e]

(* Every handle goes to ring 0 *)
ShardZero(f) == 0

(* qi = fd % MAXSENDER *)
Shard(f) == f % MAXSENDER

(* fd = events[i].data.fd; qi = fd % MAXSENDER;                            *)
(* g_queue[qi].data[g_queue[qi].last].acc = fd                             *)
ConnReady(f) ==
    /\ prog = "server9" /\ pc = "epoll_wait"
    /\ f \in epoll
    /\ fd' = f
    /\ LET qi == Shard(f)
           l  == g_queue[qi].last
       IN  g_queue' = SetSlot(qi, l, [Slot(qi, l) EXCEPT !.acc = f])
    /\ pc' = "recv"
    /\ UNCHANGED <<prog, otherVars, intr, count, epoll, fdtab, acc, spc, si, histVars, callVars>>

(* .len = recv(.acc, .buf, sizeof(.buf), 0) returning n > 0: the bytes go  *)
(* to the slot at last, without the mutex.                                 *)
RecvData ==
    /\ prog = "server9" /\ pc = "recv"
    /\ nread < MaxRecv
    /\ LET qi == Shard(fd)
           l  == g_queue[qi].last
           e  == Slot(qi, l)
           c  == Owner(fd)
           r  == Request(nread + 1)
       IN  /\ g_queue' = SetSlot(qi, l, [e EXCEPT !.buf = RecvInto(e.buf, r),
                                                  !.len = Len(r)])
           /\ req' = r
           /\ readLog' = [readLog EXCEPT ![c] = Append(@, r)]
    /\ nread' = nread + 1
    /\ intr' = FALSE
    /\ pc' = "switch"
    /\ UNCHANGED <<prog, otherVars, count, epoll, fdtab, acc, fd, spc, si, callVars,
                   nconn, admitted, rejected, closes, deregs, decs,
                   sentLog, enqLog, deqLog>>

(* recv returning n, 0 (EOF) or -1 (error), the error being an            *)
(* interruption (errno EINTR) or not: only len is stored.                  *)
RecvNothing(n, eintr) ==
    /\ prog = "server9" /\ pc = "recv"
    /\ nread < MaxRecv
    /\ nread' = nread + 1
    /\ intr' = eintr
    /\ LET qi == Shard(fd)
           l  == g_queue[qi].last
       IN  g_queue' = SetSlot(qi, l, [Slot(qi, l) EXCEPT !.len = n])
    /\ req' = <<>>
    /\ pc' = "switch"
    /\ UNCHANGED <<prog, otherVars, count, epoll, fdtab, acc, fd, spc, si, callVars,
                   nconn, admitted, rejected, closes, deregs, decs,
                   readLog, sentLog, enqLog, deqLog>>

(* recv returning 0 (EOF) or -1 with an errno other than EINTR *)
RecvEnd(n) == RecvNothing(n, FALSE)

(* recv returning -1 with errno EINTR *)
RecvIntr == RecvNothing(-1, TRUE)

(* what switch (g_queue[qi].data[g_queue[qi].last].len) reads *)
SwitchLen == Slot(Shard(fd), g_queue[Shard(fd)].last).len

(* case -1 / case 0: EPOLL_CTL_DEL succeeded, close(fd), count-- *)
Teardown ==
    /\ prog = "server9" /\ pc = "switch"
    /\ SwitchLen \in {-1, 0}
    /\ Release(fd)
    /\ pc' = "epoll_wait"
    /\ fd' = -1
    /\ UNCHANGED <<prog, otherVars, intr, acc, queueVars, callVars,
                   nconn, nread, req, admitted, rejected,
                   readLog, sentLog, enqLog, deqLog>>

(* case -1 / case 0: EPOLL_CTL_DEL failed, close(epollfd), return *)
TeardownDelFails ==
    /\ prog = "server9" /\ pc = "switch"
    /\ SwitchLen \in {-1, 0}
    /\ pc' = "returned"
    /\ UNCHANGED <<prog, otherVars, intr, count, epoll, fdtab, acc, fd, queueVars, histVars, callVars>>

(* An enqueue that waits while the ring's send thread is working on an     *)
(* entry, as it would if the thread kept the mutex until send returns      *)
EnqueueWaitsForSender ==
    /\ prog = "server9" /\ pc = "switch"
    /\ SwitchLen \notin {-1, 0}
    /\ spc[Shard(fd)] \notin {"build", "send"}
    /\ g_queue' = [g_queue EXCEPT ![Shard(fd)].last = QUEUE_NEXT(@)]
    /\ spc' = [spc EXCEPT ![Shard(fd)] = IF @ = "cond_wait" THEN "lock" ELSE @]
    /\ enqLog' = [enqLog EXCEPT ![Shard(fd)] = Append(@, [acc |-> fd, payload |-> req])]
    /\ pc' = "epoll_wait"
    /\ fd' = -1
    /\ req' = <<>>
    /\ UNCHANGED <<prog, otherVars, intr, count, epoll, fdtab, acc, si, callVars,
                   nconn, nread, admitted, rejected, closes, deregs, decs,
                   readLog, sentLog, deqLog>>

(* default: pthread_mutex_lock; last = QUEUE_NEXT(last);                   *)
(* pthread_cond_signal; pthread_mutex_unlock                               *)
Enqueue ==
    /\ prog = "server9" /\ pc = "switch"
    /\ SwitchLen \notin {-1, 0}
    /\ LET qi == Shard(fd)
       IN  /\ g_queue' = [g_queue EXCEPT ![qi].last = QUEUE_NEXT(@)]
           /\ spc' = [spc EXCEPT ![qi] = IF @ = "cond_wait" THEN "lock" ELSE @]
           /\ enqLog' = [enqLog EXCEPT ![qi] = Append(@, [acc |-> fd, payload |-> req])]
    /\ pc' = "epoll_wait"
    /\ fd' = -1
    /\ req' = <<>>
    /\ UNCHANGED <<prog, otherVars, intr, count, epoll, fdtab, acc, si, callVars,
                   nconn, nread, admitted, rejected, closes, deregs, decs,
                   readLog, sentLog, deqLog>>

----------------------------------------------------------------------------
(* server9 send_thread(qi).  What a thread does between locking and        *)
(* unlocking g_queue[qi].mutex is one step: front and last are read and    *)
(* written only with the mutex held, so no other step can fall between.    *)

(* The bytes of an entry: buf[0 .. len - 1] *)
EntryBytes(e) == IF e.len > 0 THEN SubSeq(e.buf, 1, e.len) ELSE <<>>

(* A send thread that pops without looking whether last != front *)
DequeueUnchecked(q) ==
    /\ prog = "server9" /\ spc[q] = "lock"
    /\ si' = [si EXCEPT ![q] = g_queue[q].front]
    /\ g_queue' = [g_queue EXCEPT ![q].front = QUEUE_NEXT(@)]
    /\ spc' = [spc EXCEPT ![q] = "build"]
    /\ deqLog' = [deqLog EXCEPT ![q] =
                    Append(@, [acc |-> Slot(q, g_queue[q].front).acc,
                               payload |-> EntryBytes(Slot(q, g_queue[q].front))])]
    /\ UNCHANGED <<prog, otherVars, intr, loopVars, callVars,
                   nconn, nread, req, admitted, rejected, closes, deregs, decs,
                   readLog, sentLog, enqLog>>

(* pthread_mutex_lock; last != front: i = front;                           *)
(* front = QUEUE_NEXT(front); pthread_mutex_unlock                         *)
Dequeue(q) ==
    /\ prog = "server9" /\ spc[q] = "lock"
    /\ g_queue[q].last # g_queue[q].front
    /\ si' = [si EXCEPT ![q] = g_queue[q].front]
    /\ g_queue' = [g_queue EXCEPT ![q].front = QUEUE_NEXT(@)]
    /\ spc' = [spc EXCEPT ![q] = "build"]
    /\ deqLog' = [deqLog EXCEPT ![q] =
                    Append(@, [acc |-> Slot(q, g_queue[q].front).acc,
                               payload |-> EntryBytes(Slot(q, g_queue[q].front))])]
    /\ UNCHANGED <<prog, otherVars, intr, loopVars, callVars,
                   nconn, nread, req, admitted, rejected, closes, deregs, decs,
                   readLog, sentLog, enqLog>>

(* pthread_mutex_lock; last == front: pthread_cond_wait releases the mutex *)
(* and sleeps                                                              *)
CondWait(q) ==
    /\ prog = "server9" /\ spc[q] = "lock"
    /\ g_queue[q].last = g_queue[q].front
    /\ spc' = [spc EXCEPT ![q] = "cond_wait"]
    /\ UNCHANGED <<prog, otherVars, intr, loopVars, g_queue, si, histVars, callVars>>

(* pthread_cond_wait returns without a signal: the thread holds the mutex  *)
(* again, unlocks, continues, locks, finds last == front (only a signalled *)
(* enqueue changes last) and waits again.                                  *)
SpuriousWakeup(q) ==
    /\ prog = "server9" /\ spc[q] = "cond_wait"
    /\ g_queue[q].last = g_queue[q].front
    /\ UNCHANGED vars

(* Where the thread is after send returned and it has gone round the loop: *)
(* asleep in pthread_cond_wait when it found last == front, else about to  *)
(* pop.  Only this thread moves front, and an enqueue wakes a sleeper, so  *)
(* checking right after send or later leads to the same pop.               *)
NextIteration(q) ==
    IF g_queue[q].last = g_queue[q].front THEN "cond_wait" ELSE "lock"

(* buf[len] = '\0'; strpbrk; mystrlcat; len = strlen(buf), on slot i *)
Build(q) ==
    /\ prog = "server9" /\ spc[q] = "build"
    /\ LET e == Slot(q, si[q])
           b == BuildResponse(e.buf, e.len)
       IN  g_queue' = SetSlot(q, si[q], [e EXCEPT !.buf = b, !.len = strlen(b)])
    /\ spc' = [spc EXCEPT ![q] = "send"]
    /\ UNCHANGED <<prog, otherVars, intr, loopVars, si, histVars, callVars>>

(* send(.acc, .buf, .len, 0) transmits *)
Send(q) ==
    /\ prog = "server9" /\ spc[q] = "send"
    /\ LET e == Slot(q, si[q])
       IN  /\ IsOpen(e.acc)
           /\ e.len > 0
           /\ sentLog' = [sentLog EXCEPT ![fdtab[e.acc]] = Append(@, EntryBytes(e))]
    /\ spc' = [spc EXCEPT ![q] = NextIteration(q)]
    /\ UNCHANGED <<prog, otherVars, intr, loopVars, g_queue, si, callVars,
                   nconn, nread, req, admitted, rejected, closes, deregs, decs,
                   readLog, enqLog, deqLog>>

(* A send thread that tears the connection down when send fails *)
SendFailsTearsDown(q) ==
    /\ prog = "server9" /\ spc[q] = "send"
    /\ IsOpen(Slot(q, si[q]).acc)
    /\ Release(Slot(q, si[q]).acc)
    /\ spc' = [spc EXCEPT ![q] = NextIteration(q)]
    /\ UNCHANGED <<prog, otherVars, intr, pc, acc, fd, g_queue, si, callVars,
                   nconn, nread, req, admitted, rejected,
                   readLog, sentLog, enqLog, deqLog>>

(* send returns -1 (always so on a closed descriptor): perror("send") *)
SendFails(q) ==
    /\ prog = "server9" /\ spc[q] = "send"
    /\ spc' = [spc EXCEPT ![q] = NextIteration(q)]
    /\ UNCHANGED <<prog, otherVars, intr, loopVars, g_queue, si, histVars, callVars>>

----------------------------------------------------------------------------
(* server4: send_recv(acc, child_no), and accept_loop calling it for a     *)
(* ready connection.  buf and len are send_recv's locals; the stack keeps  *)
(* what the previous call left in them.                                    *)

(* send_recv on descriptor f returns 0: recv returned data and send        *)
(* transmitted the response.                                               *)
SendRecv(f) ==
    /\ prog = "server4" /\ pc = "epoll_wait"
    /\ f \in epoll
    /\ nread < MaxRecv
    /\ LET r == Request(nread + 1)
           b == BuildResponse(RecvInto(buf, r), Len(r))
       IN  /\ buf' = b
           /\ len' = strlen(b)
           /\ readLog' = [readLog EXCEPT ![Owner(f)] = Append(@, r)]
           /\ sentLog' = [sentLog EXCEPT ![Owner(f)] = Append(@, Transmitted(b))]
    /\ nread' = nread + 1
    /\ UNCHANGED <<prog, otherVars, intr, pc, count, epoll, fdtab, acc, fd, queueVars, rpc, payload, out,
                   nconn, req, admitted, rejected, closes, deregs, decs, enqLog, deqLog>>

(* What a failing send_recv does before it returns -1: nothing when recv   *)
(* returned 0 or -1, the read and the response when send failed.           *)
FailedCall(f, cause) ==
    /\ nread < MaxRecv
    /\ nread' = nread + 1
    /\ IF cause = "send"
       THEN /\ buf' = BuildResponse(RecvInto(buf, Request(nread + 1)), Len(Request(nread + 1)))
            /\ len' = -1
            /\ readLog' = [readLog EXCEPT ![Owner(f)] = Append(@, Request(nread + 1))]
       ELSE /\ len' = IF cause = "eof" THEN 0 ELSE -1
            /\ UNCHANGED <<buf, readLog>>

(* send_recv returns -1, EPOLL_CTL_DEL succeeds: close(fd), count-- *)
SendRecvFails(f, cause) ==
    /\ prog = "server4" /\ pc = "epoll_wait"
    /\ f \in epoll
    /\ FailedCall(f, cause)
    /\ Release(f)
    /\ UNCHANGED <<prog, otherVars, intr, pc, acc, fd, queueVars, rpc, payload, out,
                   nconn, req, admitted, rejected, sentLog, enqLog, deqLog>>

(* send_recv returns -1, EPOLL_CTL_DEL fails: close(acc), close(epollfd),  *)
(* return.  acc is the descriptor accept returned last; closing it takes   *)
(* it out of the epoll set when it is open.                                *)
SendRecvDelFails(f, cause) ==
    /\ prog = "server4" /\ pc = "epoll_wait"
    /\ f \in epoll
    /\ FailedCall(f, cause)
    /\ fdtab' = Closed(acc)
    /\ epoll' = epoll \ {acc}
    /\ closes' = Bump(closes, Owner(acc))
    /\ pc' = "returned"
    /\ UNCHANGED <<prog, otherVars, intr, count, acc, fd, queueVars, rpc, payload, out,
                   nconn, req, admitted, rejected, deregs, decs, sentLog, enqLog, deqLog>>

----------------------------------------------------------------------------
(* One call of send_recv, statement by statement, on any bytes a peer may  *)
(* send.  send_thread of server9 runs the same statements on a ring slot.  *)

Payloads == UNION {[1..n -> Bytes] : n \in 1..BUFSZ}

(* What an earlier call left on the stack: 'x' everywhere *)
StaleBuf == [k \in 1..(BUFSZ + 1) |-> 120]

(* len = recv(acc, buf, sizeof(buf), 0) *)
CallRecv ==
    /\ prog = "send_recv" /\ rpc = "recv"
    /\ buf' = RecvInto(buf, payload)
    /\ len' = Len(payload)
    /\ rpc' = "terminate"
    /\ UNCHANGED <<prog, otherVars, intr, loopVars, queueVars, histVars, payload, out>>

(* buf[len] = '\0' *)
CallTerminate ==
    /\ prog = "send_recv" /\ rpc = "terminate"
    /\ buf' = Terminate(buf, len)
    /\ rpc' = "strpbrk"
    /\ UNCHANGED <<prog, otherVars, intr, loopVars, queueVars, histVars, len, payload, out>>

(* if ((ptr = strpbrk(buf, "\r\n")) != NULL) *ptr = '\0' *)
CallStrip ==
    /\ prog = "send_recv" /\ rpc = "strpbrk"
    /\ buf' = StripAtBreak(buf)
    /\ rpc' = "mystrlcat"
    /\ UNCHANGED <<prog, otherVars, intr, loopVars, queueVars, histVars, len, payload, out>>

(* mystrlcat(buf, ":OK\r\n", sizeof(buf)); len = strlen(buf) *)
CallCat ==
    /\ prog = "send_recv" /\ rpc = "mystrlcat"
    /\ buf' = mystrlcat(buf, SUFFIX, BUFSZ)
    /\ len' = strlen(mystrlcat(buf, SUFFIX, BUFSZ))
    /\ rpc' = "send"
    /\ UNCHANGED <<prog, otherVars, intr, loopVars, queueVars, histVars, payload, out>>

(* send(acc, buf, len, 0) *)
CallSend ==
    /\ prog = "send_recv" /\ rpc = "send"
    /\ out' = SubSeq(buf, 1, len)
    /\ rpc' = "done"
    /\ UNCHANGED <<prog, otherVars, intr, loopVars, queueVars, histVars, buf, len, payload>>

----------------------------------------------------------------------------
(* daemonize (part_000).  Three processes can exist: the one that called   *)
(* daemonize, the child of the first fork and the child of the second.     *)

PROCS == {"original", "child", "daemon"}

(* The descriptors the closing loop walks over *)
DFDS == 0..(MAXFD - 1)

(* A process that does not exist *)
Unborn ==
    [pc |-> "unborn", ret |-> 0, failed |-> FALSE, cwd |-> "", leader |-> FALSE,
     tty |-> FALSE, hup |-> "default", i |-> 0, fd |-> -1,
     fds |-> [d \in DFDS |-> "closed"]]

(* daemonize is not running: no process is in it *)
NoDaemon ==
    /\ nochdir = 0
    /\ noclose = 0
    /\ proc = <<>>

(* A process with terminal, working directory and descriptors of its own   *)
(* calls daemonize                                                         *)
InitDaemonize ==
    /\ nochdir \in {0, 1}
    /\ noclose \in {0, 1}
    /\ \E open \in [DFDS -> {"closed", "tty", "file"}] :
          proc = [p \in PROCS |->
                    IF p = "original"
                    THEN [Unborn EXCEPT !.pc = "fork1", !.cwd = "home",
                                        !.tty = TRUE, !.fds = open]
                    ELSE Unborn]

(* What the child of a fork starts with: a copy of its parent, at the      *)
(* statement after the fork, and not a session leader                      *)
Forked(parent, at) == [parent EXCEPT !.pc = at, !.leader = FALSE]

(* The first fork succeeds: the caller goes to _exit(0), the child goes on *)
Fork1 ==
    /\ prog = "daemonize"
    /\ proc["original"].pc = "fork1"
    /\ proc' = [proc EXCEPT !["original"].pc = "_exit",
                            !["child"] = Forked(proc["original"], "setsid")]
    /\ UNCHANGED <<serverVars, nochdir, noclose, laterVars>>

(* The first fork fails: return (-1) *)
Fork1Fails ==
    /\ prog = "daemonize"
    /\ proc["original"].pc = "fork1"
    /\ proc' = [proc EXCEPT !["original"].pc = "returned",
                            !["original"].ret = -1,
                            !["original"].failed = TRUE]
    /\ UNCHANGED <<serverVars, nochdir, noclose, laterVars>>

(* _exit(0) *)
Exit(p) ==
    /\ prog = "daemonize"
    /\ proc[p].pc = "_exit"
    /\ proc' = [proc EXCEPT ![p].pc = "exited"]
    /\ UNCHANGED <<serverVars, nochdir, noclose, laterVars>>

(* setsid: the child of a fork leads no process group, so the call makes   *)
(* it the leader of a new session without a controlling terminal           *)
Setsid ==
    /\ prog = "daemonize"
    /\ proc["child"].pc = "setsid"
    /\ proc' = [proc EXCEPT !["child"].pc = "signal",
                            !["child"].leader = TRUE,
                            !["child"].tty = FALSE]
    /\ UNCHANGED <<serverVars, nochdir, noclose, laterVars>>

(* signal(SIGHUP, SIG_IGN) *)
Signal ==
    /\ prog = "daemonize"
    /\ proc["child"].pc = "signal"
    /\ proc' = [proc EXCEPT !["child"].pc = "fork2", !["child"].hup = "ignore"]
    /\ UNCHANGED <<serverVars, nochdir, noclose, laterVars>>

(* The second fork succeeds: pid != 0 in the child, which goes to          *)
(* _exit(0); its child goes on                                             *)
Fork2 ==
    /\ prog = "daemonize"
    /\ proc["child"].pc = "fork2"
    /\ proc' = [proc EXCEPT !["child"].pc = "_exit",
                            !["daemon"] = Forked(proc["child"], "chdir")]
    /\ UNCHANGED <<serverVars, nochdir, noclose, laterVars>>

(* The second fork fails: pid is -1, which is != 0 too, so the child goes  *)
(* to _exit(0)                                                             *)
Fork2Fails ==
    /\ prog = "daemonize"
    /\ proc["child"].pc = "fork2"
    /\ proc' = [proc EXCEPT !["child"].pc = "_exit", !["child"].failed = TRUE]
    /\ UNCHANGED <<serverVars, nochdir, noclose, laterVars>>

(* if (nochdir == 0) chdir("/"), then the test of noclose *)
Chdir ==
    /\ prog = "daemonize"
    /\ proc["daemon"].pc = "chdir"
    /\ proc' = [proc EXCEPT
                  !["daemon"].cwd = IF nochdir = 0 THEN "/" ELSE @,
                  !["daemon"].pc = IF noclose = 0 THEN "close" ELSE "return"]
    /\ UNCHANGED <<serverVars, nochdir, noclose, laterVars>>

(* One round of the loop for (i = 0; i < MAXFD; i++) close(i) *)
CloseNext ==
    /\ prog = "daemonize"
    /\ proc["daemon"].pc = "close"
    /\ LET i_ == proc["daemon"].i
       IN  proc' = [proc EXCEPT
                      !["daemon"].fds[i_] = "closed",
                      !["daemon"].i = i_ + 1,
                      !["daemon"].pc = IF i_ + 1 < MAXFD THEN "close" ELSE "open"]
    /\ UNCHANGED <<serverVars, nochdir, noclose, laterVars>>

(* The lowest descriptor that is not open *)
LowestClosed(fds) == CHOOSE d \in DFDS : fds[d] = "closed" /\ \A e \in 0..(d - 1) : fds[e] # "closed"

(* open("/dev/null") succeeds, the three dup2 calls, and close(fd) when    *)
(* fd > 2                                                                  *)
Redirect ==
    /\ prog = "daemonize"
    /\ proc["daemon"].pc = "open"
    /\ LET got == LowestClosed(proc["daemon"].fds)
           std == [d \in DFDS |-> IF d \in {got, 0, 1, 2} THEN "null"
                                  ELSE proc["daemon"].fds[d]]
       IN  proc' = [proc EXCEPT
                      !["daemon"].fd = got,
                      !["daemon"].fds = IF got > 2 THEN [std EXCEPT ![got] = "closed"]
                                        ELSE std,
                      !["daemon"].pc = "return"]
    /\ UNCHANGED <<serverVars, nochdir, noclose, laterVars>>

(* open("/dev/null") returns -1: nothing is redirected *)
OpenFails ==
    /\ prog = "daemonize"
    /\ proc["daemon"].pc = "open"
    /\ proc' = [proc EXCEPT !["daemon"].fd = -1, !["daemon"].pc = "return"]
    /\ UNCHANGED <<serverVars, nochdir, noclose, laterVars>>

(* return (0) *)
Return0 ==
    /\ prog = "daemonize"
    /\ proc["daemon"].pc = "return"
    /\ proc' = [proc EXCEPT !["daemon"].pc = "returned", !["daemon"].ret = 0]
    /\ UNCHANGED <<serverVars, nochdir, noclose, laterVars>>

----------------------------------------------------------------------------
(* server8.c and server7.c: NUM_CHILD threads (server8) or child processes *)
(* (server7) share the listening socket.  Each one takes the accept lock,  *)
(* the mutex g_lock in server8 and the lockf lock on g_lock_fd in server7, *)
(* calls accept, releases the lock and serves the connection it got.       *)

(* The threads or processes that accept: 2 in both programs *)
NUM_CHILD == 2

(* How many connections the listening socket queues *)
MaxBacklog == 2

WORKERS == 1..NUM_CHILD

(* No lock server runs *)
NoLock == lk = <<>>

(* main has made the listening socket (and server7 the lock file) and is   *)
(* about to create the first thread or process; nobody holds the lock.     *)
InitLockServer ==
    lk = [pc |-> [w \in WORKERS |-> "unborn"], i |-> 0,
          g_lock |-> 0, g_lock_id |-> -1, backlog |-> 0]

(* A client's connect completes: the connection waits in the backlog *)
Connect ==
    /\ prog \in {"server8", "server7"}
    /\ lk.backlog < MaxBacklog
    /\ lk' = [lk EXCEPT !.backlog = @ + 1]
    /\ UNCHANGED <<serverVars, daemonVars, mx, th>>

(* main: pthread_create / fork succeeded for the i-th worker, which starts *)
(* at the top of its loop                                                  *)
Spawn ==
    /\ prog \in {"server8", "server7"}
    /\ lk.i < NUM_CHILD
    /\ lk' = [lk EXCEPT !.i = @ + 1, !.pc[lk.i + 1] = "lock"]
    /\ UNCHANGED <<serverVars, daemonVars, mx, th>>

(* main: pthread_create / fork failed: perror, and on to the next one *)
SpawnFails ==
    /\ prog \in {"server8", "server7"}
    /\ lk.i < NUM_CHILD
    /\ lk' = [lk EXCEPT !.i = @ + 1, !.pc[lk.i + 1] = "none"]
    /\ UNCHANGED <<serverVars, daemonVars, mx, th>>

(* A lock that is granted whoever holds it *)
LockAlwaysFree == TRUE

(* pthread_mutex_lock(&g_lock) / lockf(g_lock_fd, F_LOCK, 0) returns when  *)
(* nobody holds the lock                                                   *)
LockFree == lk.g_lock = 0

(* What server8 stores in g_lock_id for worker w, -1 for nobody; server7   *)
(* has no such variable                                                    *)
LockId(w) == IF prog = "server8" THEN w ELSE -1

(* The lock is taken, g_lock_id = (int) pthread_self(), and accept is      *)
(* called                                                                  *)
LockAccept(w) ==
    /\ prog \in {"server8", "server7"}
    /\ lk.pc[w] = "lock"
    /\ LockFree
    /\ lk' = [lk EXCEPT !.pc[w] = "accept", !.g_lock = w, !.g_lock_id = LockId(w)]
    /\ UNCHANGED <<serverVars, daemonVars, mx, th>>

(* accept returns a connection of the backlog *)
AcceptReturns(w) ==
    /\ prog \in {"server8", "server7"}
    /\ lk.pc[w] = "accept"
    /\ lk.backlog > 0
    /\ lk' = [lk EXCEPT !.pc[w] = "accepted", !.backlog = @ - 1]
    /\ UNCHANGED <<serverVars, daemonVars, mx, th>>

(* accept returns -1, interrupted or failed: perror unless errno is EINTR *)
AcceptReturnsError(w) ==
    /\ prog \in {"server8", "server7"}
    /\ lk.pc[w] = "accept"
    /\ lk' = [lk EXCEPT !.pc[w] = "failed"]
    /\ UNCHANGED <<serverVars, daemonVars, mx, th>>

(* A failed accept after which the loop goes round with the lock kept *)
ContinueLocked(w) ==
    /\ prog \in {"server8", "server7"}
    /\ lk.pc[w] = "failed"
    /\ lk' = [lk EXCEPT !.pc[w] = "lock"]
    /\ UNCHANGED <<serverVars, daemonVars, mx, th>>

(* After a failed accept: g_lock_id = -1; the lock is released; continue *)
UnlockAfterError(w) ==
    /\ prog \in {"server8", "server7"}
    /\ lk.pc[w] = "failed"
    /\ lk' = [lk EXCEPT !.pc[w] = "lock", !.g_lock = 0, !.g_lock_id = -1]
    /\ UNCHANGED <<serverVars, daemonVars, mx, th>>

(* A worker that goes on to send_recv_loop with the lock kept *)
ServeLocked(w) ==
    /\ prog \in {"server8", "server7"}
    /\ lk.pc[w] = "accepted"
    /\ lk' = [lk EXCEPT !.pc[w] = "send_recv_loop"]
    /\ UNCHANGED <<serverVars, daemonVars, mx, th>>

(* After accept: getnameinfo, the log line, g_lock_id = -1; the lock is    *)
(* released; send_recv_loop(acc) is entered                                *)
UnlockAfterAccept(w) ==
    /\ prog \in {"server8", "server7"}
    /\ lk.pc[w] = "accepted"
    /\ lk' = [lk EXCEPT !.pc[w] = "send_recv_loop", !.g_lock = 0, !.g_lock_id = -1]
    /\ UNCHANGED <<serverVars, daemonVars, mx, th>>

(* send_recv_loop returns: the peer closed, or recv or send failed *)
SendRecvLoopReturns(w) ==
    /\ prog \in {"server8", "server7"}
    /\ lk.pc[w] = "send_recv_loop"
    /\ lk' = [lk EXCEPT !.pc[w] = "close"]
    /\ UNCHANGED <<serverVars, daemonVars, mx, th>>

(* close(acc), and round the loop *)
CloseAcc(w) ==
    /\ prog \in {"server8", "server7"}
    /\ lk.pc[w] = "close"
    /\ lk' = [lk EXCEPT !.pc[w] = "lock"]
    /\ UNCHANGED <<serverVars, daemonVars, mx, th>>

----------------------------------------------------------------------------
(* The select server (part_002) and server3.c (poll): one loop keeps the   *)
(* accepted descriptors in child[0 .. child_no - 1], -1 marking a free     *)
(* slot, waits for the listening socket and the kept descriptors, accepts  *)
(* when the listening socket is ready and calls send_recv once on every    *)
(* kept descriptor that is ready.                                          *)

(* The listening socket *)
SOC == 3

ChildIndex == 0..(MAX_CHILD - 1)

Mux == prog \in {"select", "server3"}

(* Neither of them runs *)
NoMux == mx = <<>>

(* child[i] = -1 for every i; child_no = 0 *)
InitMuxServer ==
    mx = [child |-> [k \in ChildIndex |-> -1], child_no |-> 0,
          mask |-> {}, targets |-> <<>>, i |-> 0]

(* The slots in use *)
Held == {k \in 0..(mx.child_no - 1) : mx.child[k] # -1}

(* The descriptors FD_SET puts into mask, or the loop into targets[1..] *)
Watched == {mx.child[k] : k \in Held}

(* targets[1 .. count - 1]: the descriptors of the slots in use, in slot    *)
(* order                                                                   *)
Targets ==
    SelectSeq([k \in 1..mx.child_no |-> mx.child[k - 1]], LAMBDA f : f # -1)

(* count as the loop leaves it: the slots in use, and in server3 the       *)
(* listening socket too                                                    *)
Counted == IF prog = "select" THEN Cardinality(Held) ELSE Cardinality(Held) + 1

(* select or poll returned 0 or -1: nothing is handled *)
MuxNothing ==
    /\ Mux /\ pc = "select"
    /\ count' = Counted
    /\ mx' = [mx EXCEPT !.mask = {},
                        !.targets = IF prog = "server3" THEN Targets ELSE <<>>]
    /\ UNCHANGED <<prog, daemonVars, lk, th, intr, pc, epoll, fdtab, acc, fd, queueVars,
                   histVars, callVars>>

(* select or poll reported the descriptors m ready *)
MuxReady(m) ==
    /\ Mux /\ pc = "select"
    /\ m # {} /\ m \subseteq ({SOC} \cup Watched)
    /\ count' = Counted
    /\ mx' = [mx EXCEPT !.mask = m,
                        !.targets = IF prog = "server3" THEN Targets ELSE <<>>,
                        !.i = IF prog = "server3" THEN 1 ELSE 0]
    /\ pc' = IF SOC \in m THEN "accept" ELSE "children"
    /\ UNCHANGED <<prog, daemonVars, lk, th, intr, epoll, fdtab, acc, fd, queueVars,
                   histVars, callVars>>

(* accept returned -1 *)
MuxAcceptFails ==
    /\ Mux /\ pc = "accept"
    /\ acc' = -1
    /\ pc' = "children"
    /\ UNCHANGED <<prog, daemonVars, lk, th, mx, intr, count, epoll, fdtab, fd, queueVars,
                   histVars, callVars>>

(* for (i = 0; i < child_no; i++) if (child[i] == -1) { pos = i; break; }  *)
FreeSlot ==
    IF \E k \in 0..(mx.child_no - 1) : mx.child[k] = -1
    THEN CHOOSE k \in 0..(mx.child_no - 1) :
            /\ mx.child[k] = -1
            /\ \A j \in 0..(k - 1) : mx.child[j] # -1
    ELSE -1

(* A limit that lets child_no grow to MAX_CHILD *)
ChildIsFullAtMax(n) == n >= MAX_CHILD

(* if (child_no + 1 >= MAX_CHILD): "child is full : cannot accept" *)
ChildIsFull(n) == n + 1 >= MAX_CHILD

(* accept succeeded and a slot is found or child_no is extended:           *)
(* child[pos] = acc                                                        *)
MuxAcceptStore ==
    /\ Mux /\ pc = "accept" /\ nconn < MaxConn
    /\ FreeSlot # -1 \/ ~ChildIsFull(mx.child_no)
    /\ nconn' = nconn + 1
    /\ acc' = LowestFree
    /\ fdtab' = [fdtab EXCEPT ![LowestFree] = nconn + 1]
    /\ mx' = IF FreeSlot # -1
             THEN [mx EXCEPT !.child[FreeSlot] = LowestFree]
             ELSE [mx EXCEPT !.child_no = @ + 1, !.child[mx.child_no] = LowestFree]
    /\ admitted' = admitted \cup {nconn + 1}
    /\ pc' = "children"
    /\ UNCHANGED <<prog, daemonVars, lk, th, intr, count, epoll, fd, queueVars, callVars,
                   nread, req, rejected, closes, deregs, decs,
                   readLog, sentLog, enqLog, deqLog>>

(* accept succeeded, no slot is free and child_no cannot grow: close(acc)  *)
MuxAcceptFull ==
    /\ Mux /\ pc = "accept" /\ nconn < MaxConn
    /\ FreeSlot = -1 /\ ChildIsFull(mx.child_no)
    /\ nconn' = nconn + 1
    /\ acc' = LowestFree
    /\ fdtab' = [fdtab EXCEPT ![LowestFree] = -(nconn + 1)]
    /\ closes' = Bump(closes, nconn + 1)
    /\ rejected' = rejected \cup {nconn + 1}
    /\ pc' = "children"
    /\ UNCHANGED <<prog, daemonVars, lk, th, mx, intr, count, epoll, fd, queueVars, callVars,
                   nread, req, admitted, deregs, decs,
                   readLog, sentLog, enqLog, deqLog>>

(* The descriptor at index k of the second loop: child[k] in the select    *)
(* server, targets[k].fd in server3                                        *)
LoopFd(k) == IF prog = "select" THEN mx.child[k] ELSE mx.targets[k]

(* The indices the second loop has still to visit *)
LoopRest ==
    IF prog = "select" THEN mx.i..(mx.child_no - 1) ELSE mx.i..Len(mx.targets)

(* The next index at which the loop calls send_recv: the descriptor is set *)
(* (select server) and was reported ready; -1 when there is none           *)
NextReady ==
    LET R == {k \in LoopRest : LoopFd(k) # -1 /\ LoopFd(k) \in mx.mask}
    IN  IF R = {} THEN -1 ELSE CHOOSE k \in R : \A j \in R : k <= j

(* send_recv returned 0 *)
ChildOk ==
    /\ Mux /\ pc = "children"
    /\ NextReady # -1
    /\ mx' = [mx EXCEPT !.i = NextReady + 1]
    /\ UNCHANGED <<prog, daemonVars, lk, th, intr, loopVars, queueVars, histVars, callVars>>

(* A failed send_recv after which the descriptor is closed and stays in    *)
(* child[]                                                                 *)
KeepSlot(f) == mx.child

(* child[] after the slot of descriptor f went back to -1: child[i] = -1   *)
(* in the select server; in server3 the first j with child[j] == f         *)
FreeSlotOf(f) ==
    LET S == {j \in 0..(mx.child_no - 1) : mx.child[j] = f}
    IN  IF prog = "select"
        THEN [mx.child EXCEPT ![NextReady] = -1]
        ELSE IF S = {} THEN mx.child
             ELSE [mx.child EXCEPT ![CHOOSE j \in S : \A h \in S : j <= h] = -1]

(* A failed send_recv after which the slot is freed and the descriptor is  *)
(* left open                                                               *)
SlotFreedOnly ==
    /\ Mux /\ pc = "children"
    /\ NextReady # -1
    /\ mx' = [mx EXCEPT !.i = NextReady + 1, !.child = FreeSlotOf(LoopFd(NextReady))]
    /\ UNCHANGED <<prog, daemonVars, lk, th, intr, loopVars, queueVars, histVars, callVars>>

(* send_recv returned -1: close the descriptor and free its slot *)
ChildFails ==
    /\ Mux /\ pc = "children"
    /\ NextReady # -1
    /\ LET f == LoopFd(NextReady)
       IN  /\ fdtab' = Closed(f)
           /\ closes' = Bump(closes, Owner(f))
           /\ mx' = [mx EXCEPT !.i = NextReady + 1, !.child = FreeSlotOf(f)]
    /\ UNCHANGED <<prog, daemonVars, lk, th, intr, pc, count, epoll, acc, fd, queueVars, callVars,
                   nconn, nread, req, admitted, rejected, deregs, decs,
                   readLog, sentLog, enqLog, deqLog>>

(* The second loop is through: break, and round the outer loop *)
ChildrenDone ==
    /\ Mux /\ pc = "children"
    /\ NextReady = -1
    /\ pc' = "select"
    /\ UNCHANGED <<prog, daemonVars, lk, th, mx, intr, count, epoll, fdtab, acc, fd, queueVars,
                   histVars, callVars>>

----------------------------------------------------------------------------
(* server6.c: accept_loop starts one send_recv_thread for every connection *)
(* it accepts and hands it the descriptor; the thread serves the           *)
(* connection, closes the descriptor and exits.                            *)

(* server6 does not run *)
NoThreads == th = <<>>

(* No connection yet, no thread *)
InitThreadServer == th = [c \in CONNS |-> "none"]

(* accept returned -1: perror unless errno is EINTR, and round the loop *)
ThreadAcceptFails ==
    /\ prog = "server6"
    /\ acc' = -1
    /\ UNCHANGED <<prog, daemonVars, lk, mx, th, intr, pc, count, epoll, fdtab, fd,
                   queueVars, histVars, callVars>>

(* accept succeeded and pthread_create succeeded: the thread of the new    *)
(* connection starts with acc as its argument                              *)
AcceptSpawn ==
    /\ prog = "server6" /\ nconn < MaxConn
    /\ nconn' = nconn + 1
    /\ acc' = LowestFree
    /\ fdtab' = [fdtab EXCEPT ![LowestFree] = nconn + 1]
    /\ admitted' = admitted \cup {nconn + 1}
    /\ th' = [th EXCEPT ![nconn + 1] = "recv"]
    /\ UNCHANGED <<prog, daemonVars, lk, mx, intr, pc, count, epoll, fd, queueVars, callVars,
                   nread, req, rejected, closes, deregs, decs,
                   readLog, sentLog, enqLog, deqLog>>

(* accept succeeded and pthread_create failed: perror("pthread_create"),   *)
(* and round the loop                                                      *)
AcceptSpawnFails ==
    /\ prog = "server6" /\ nconn < MaxConn
    /\ nconn' = nconn + 1
    /\ acc' = LowestFree
    /\ fdtab' = [fdtab EXCEPT ![LowestFree] = nconn + 1]
    /\ UNCHANGED <<prog, daemonVars, lk, mx, th, intr, pc, count, epoll, fd, queueVars, callVars,
                   nread, req, admitted, rejected, closes, deregs, decs,
                   readLog, sentLog, enqLog, deqLog>>

(* The descriptor connection c is open on: the thread's acc *)
FdOf(c) == CHOOSE f \in FDS : fdtab[f] = c

(* send_recv_thread of connection c: recv returned data and send           *)
(* transmitted the response                                                *)
ThreadServes(c) ==
    /\ prog = "server6" /\ th[c] = "recv"
    /\ nread < MaxRecv
    /\ nread' = nread + 1
    /\ readLog' = [readLog EXCEPT ![c] = Append(@, Request(nread + 1))]
    /\ sentLog' = [sentLog EXCEPT ![c] = Append(@,
                        Transmitted(BuildResponse(RecvInto(ZeroBuf, Request(nread + 1)),
                                                  Len(Request(nread + 1)))))]
    /\ UNCHANGED <<prog, daemonVars, lk, mx, th, intr, loopVars, queueVars, callVars,
                   nconn, req, admitted, rejected, closes, deregs, decs, enqLog, deqLog>>

(* recv returned -1 or 0, or send returned -1: break *)
ThreadBreaks(c) ==
    /\ prog = "server6" /\ th[c] = "recv"
    /\ th' = [th EXCEPT ![c] = "close"]
    /\ UNCHANGED <<prog, daemonVars, lk, mx, intr, loopVars, queueVars, histVars, callVars>>

(* close(acc); pthread_exit *)
ThreadCloses(c) ==
    /\ prog = "server6" /\ th[c] = "close"
    /\ fdtab' = Closed(FdOf(c))
    /\ closes' = Bump(closes, c)
    /\ th' = [th EXCEPT ![c] = "exited"]
    /\ UNCHANGED <<prog, daemonVars, lk, mx, intr, pc, count, epoll, acc, fd, queueVars, callVars,
                   nconn, nread, req, admitted, rejected, deregs, decs,
                   readLog, sentLog, enqLog, deqLog>>

(* None of the later programs runs *)
NoLater == NoLock /\ NoMux /\ NoThreads

----------------------------------------------------------------------------
(* The specifications.                                                     *)

Init ==
    /\ prog \in {"server9", "server4"}
    /\ InitLoop /\ InitQueue /\ InitHist /\ InitCall
    /\ NoDaemon /\ NoLater

Next ==
    \/ AcceptFull
    \/ AcceptRegister
    \/ AcceptAddFails
    \/ PollAgain
    \/ \E f \in FDS : ConnReady(f)
    \/ RecvData
    \/ \E n \in {0, -1} : RecvEnd(n)
    \/ Teardown
    \/ TeardownDelFails
    \/ Enqueue
    \/ \E q \in QI : Dequeue(q)
    \/ \E q \in QI : CondWait(q)
    \/ \E q \in QI : SpuriousWakeup(q)
    \/ \E q \in QI : Build(q)
    \/ \E q \in QI : Send(q)
    \/ \E q \in QI : SendFails(q)
    \/ \E f \in FDS : SendRecv(f)
    \/ \E f \in FDS, cause \in {"eof", "recv", "send"} : SendRecvFails(f, cause)
    \/ \E f \in FDS, cause \in {"eof", "recv", "send"} : SendRecvDelFails(f, cause)

Spec == Init /\ [][Next]_vars

(* Every request a peer can send to one send_recv call *)
InitCalls ==
    /\ prog = "send_recv"
    /\ InitLoop /\ InitQueue /\ InitHist /\ NoDaemon /\ NoLater
    /\ buf \in {ZeroBuf, StaleBuf}
    /\ len = 0
    /\ rpc = "recv"
    /\ payload \in Payloads
    /\ out = <<>>

NextCall ==
    \/ CallRecv
    \/ CallTerminate
    \/ CallStrip
    \/ CallCat
    \/ CallSend

SpecCall == InitCalls /\ [][NextCall]_vars

(* server9 and server4 with the interrupted recv told apart from the other *)
(* errors                                                                  *)
NextIntr ==
    \/ Next
    \/ RecvIntr

SpecIntr == Init /\ [][NextIntr]_vars

(* One call of daemonize *)
InitDaemon ==
    /\ prog = "daemonize"
    /\ InitLoop /\ InitQueue /\ InitHist /\ InitCall
    /\ InitDaemonize /\ NoLater

NextDaemon ==
    \/ Fork1
    \/ Fork1Fails
    \/ \E p \in PROCS : Exit(p)
    \/ Setsid
    \/ Signal
    \/ Fork2
    \/ Fork2Fails
    \/ Chdir
    \/ CloseNext
    \/ Redirect
    \/ OpenFails
    \/ Return0

SpecDaemon == InitDaemon /\ [][NextDaemon]_vars

(* server9 and server4 with the polls and accepts that bring nothing told  *)
(* apart                                                                   *)
NextPoll ==
    \/ Next
    \/ PollTimeout
    \/ PollError
    \/ \E eintr \in BOOLEAN : AcceptFails(eintr)
    \/ LoopAgain

SpecPoll == Init /\ [][NextPoll]_vars

(* server9 and server4 with every send thread scheduled again and again   *)
(* and every send returning: a send thread that can take its next step     *)
(* does not stay where it is for ever.  Nothing is assumed of the clients  *)
(* or of accept_loop.                                                      *)
SendThreadNext(q) ==
    \/ Dequeue(q)
    \/ CondWait(q)
    \/ Build(q)
    \/ Send(q)
    \/ SendFails(q)

SpecFair == Spec /\ \A q \in QI : WF_vars(SendThreadNext(q))

----------------------------------------------------------------------------
(* Notions the properties below are stated with.                           *)

(* s is t with some elements left out *)
IsSubSeq(s, t) ==
    LET F[i \in 0..Len(s), j \in 0..Len(t)] ==
            IF i = 0 THEN TRUE
            ELSE IF j = 0 THEN FALSE
            ELSE IF s[i] = t[j] THEN F[i - 1, j - 1]
            ELSE F[i, j - 1]
    IN  F[Len(s), Len(t)]

IsPrefix(s, t) == Len(s) <= Len(t) /\ SubSeq(t, 1, Len(s)) = s

(* The response to request r: the echoed line and the suffix *)
RespOf(r) == Transmitted(BuildResponse(RecvInto(ZeroBuf, r), Len(r)))

(* The responses to the requests read from connection c, in reading order *)
OwnResponses(c) == [i \in 1..Len(readLog[c]) |-> RespOf(readLog[c][i])]

(* The responses transmitted on c that answer a request read from c *)
SentOwn(c) ==
    LET IsOwn(x) == \E i \in 1..Len(readLog[c]) : x = RespOf(readLog[c][i])
    IN  SelectSeq(sentLog[c], IsOwn)

(* Entries published to ring q and not popped yet *)
Pending(q) == Len(enqLog[q]) - Len(deqLog[q])

(* An accept_loop step that accepted a connection and went on polling *)
Accepted == nconn' = nconn + 1 /\ pc' = "epoll_wait"

(* The connection accepted by the step was closed without being registered *)
Turned == /\ ~IsOpen(acc)' /\ epoll' = epoll /\ count' = count

(* The connection accepted by the step was registered *)
Registered == /\ IsOpen(acc)' /\ epoll' = epoll \cup {acc'} /\ acc' \notin epoll
              /\ count' = count + 1

----------------------------------------------------------------------------
(* C1: the number of registered connections, and count, never exceed       *)
(* MAX_CHILD, and a connection accepted while MAX_CHILD connections are    *)
(* registered is closed, the registered set and count staying as they are. *)
C1_AdmissionBound ==
    /\ [](Cardinality(epoll) <= MAX_CHILD /\ count <= MAX_CHILD)
    /\ [][(nconn' = nconn + 1 /\ Cardinality(epoll) >= MAX_CHILD) => Turned]_vars

(* A connection has been turned away while the loop held as many           *)
(* connections as it ever admits.                                          *)
C1_Witness ==
    /\ rejected # {}
    /\ Cardinality(epoll) + 1 >= MAX_CHILD
    /\ count = Cardinality(epoll)

(* C2: an accepted connection is turned away if and only if count is at    *)
(* least MAX_CHILD, and with count below MAX_CHILD it is registered and    *)
(* count goes up by one.                                                   *)
C2_RejectIffAtMax ==
    [][Accepted =>
         /\ (count >= MAX_CHILD <=> Turned)
         /\ (count < MAX_CHILD => Registered)]_vars

(* C3: on every connection the responses to its requests are transmitted   *)
(* in the order the requests were read, none of them twice.                *)
C3_ResponseOrder ==
    \A c \in CONNS : IsSubSeq(SentOwn(c), OwnResponses(c))

(* C4: an entry the send thread pops, and the slot while the send thread   *)
(* builds the response in it, holds a handle and bytes that were published *)
(* together.                                                               *)
C4_EntryAsEnqueued ==
    \A q \in QI :
        /\ \A i \in 1..Len(deqLog[q]) : \E j \in 1..Len(enqLog[q]) : deqLog[q][i] = enqLog[q][j]
        /\ (prog = "server9" /\ spc[q] = "build") =>
              /\ Slot(q, si[q]).acc = deqLog[q][Len(deqLog[q])].acc
              /\ EntryBytes(Slot(q, si[q])) = deqLog[q][Len(deqLog[q])].payload

(* C5: last advances only when the ring is not full, that is when the slot *)
(* after last is not the one at front.                                     *)
C5_EnqueueWaitsWhenFull ==
    [][\A q \in QI :
         g_queue'[q].last # g_queue[q].last =>
             QUEUE_NEXT(g_queue[q].last) # g_queue[q].front]_vars

(* C6: front = last exactly when no published entry is waiting to be       *)
(* popped.                                                                 *)
C6_EmptyIffFrontIsLast ==
    \A q \in QI : (g_queue[q].front = g_queue[q].last) <=> (Pending(q) = 0)

(* C7: the entries popped from a ring are the entries published to it, in  *)
(* the same order, each once.                                              *)
C7_DequeuedOnce ==
    \A q \in QI : IsPrefix(deqLog[q], enqLog[q])

----------------------------------------------------------------------------
(* Requests that are one line.                                             *)

Range(s) == {s[i] : i \in 1..Len(s)}

(* p without its last k bytes *)
DropLast(p, k) == SubSeq(p, 1, Len(p) - k)

(* p is a line with none of the bytes of excl, then CR LF, and the line    *)
(* and the suffix fit in the buffer with the terminating NUL.              *)
IsLineRequest(p, excl) ==
    /\ Len(p) >= 2
    /\ p[Len(p) - 1] = CR /\ p[Len(p)] = LF
    /\ Range(DropLast(p, 2)) \cap excl = {}
    /\ Len(p) - 2 + Len(SUFFIX) <= BUFSZ - 1

C10_NoByteDropped ==
    (rpc = "done" /\ NUL \notin Range(payload)) =>
        \E k \in 0..2 :
            /\ k <= Len(payload)
            /\ k = 2 => (payload[Len(payload) - 1] = CR /\ payload[Len(payload)] = LF)
            /\ k = 1 => payload[Len(payload)] \in {CR, LF}
            /\ IsPrefix(DropLast(payload, k), out)
            /\ Len(payload) - k + Len(SUFFIX) <= BUFSZ - 1 =>
                  out = DropLast(payload, k) \o SUFFIX

----------------------------------------------------------------------------
(* The rings and their send threads.                                       *)

(* A step of send_thread(q): the thread moves and accept_loop does not *)
SendThreadStep(q) == spc'[q] # spc[q] /\ pc' = pc

(* C11: front of ring q is advanced only by send_thread(q), which then     *)
(* works on the slot it popped, and a step of send_thread(q) leaves every  *)
(* other ring, and what was popped from it, as it is.                      *)
C11_OwnRingOnly ==
    [][\A q \in QI :
         /\ g_queue'[q].front # g_queue[q].front =>
               /\ spc[q] = "lock" /\ spc'[q] = "build"
               /\ si'[q] = g_queue[q].front
               /\ Len(deqLog'[q]) = Len(deqLog[q]) + 1
         /\ SendThreadStep(q) =>
               \A k \in QI \ {q} : /\ g_queue'[k] = g_queue[k]
                                   /\ deqLog'[k] = deqLog[k]
                                   /\ si'[k] = si[k]]_vars

(* Both send threads have popped an entry of their ring and sent a         *)
(* response.                                                               *)
C11_Witness ==
    /\ \A q \in QI : Len(deqLog[q]) > 0
    /\ Cardinality({c \in CONNS : sentLog[c] # <<>>}) >= 2

(* C12: every entry published to ring q, and every slot of ring q that has *)
(* been written, carries a handle h with h % MAXSENDER = q, and the        *)
(* requests read from one connection are all published to the same ring.   *)
C12_ShardOfHandle ==
    /\ \A q \in QI : \A i \in 1..Len(enqLog[q]) : enqLog[q][i].acc % MAXSENDER = q
    /\ \A q \in QI, s \in SLOTS : Slot(q, s).acc # 0 => Slot(q, s).acc % MAXSENDER = q
    /\ \A c \in CONNS :
          LET read == Range(readLog[c])
          IN  Cardinality({q \in QI : \E i \in 1..Len(enqLog[q]) :
                                        enqLog[q][i].payload \in read}) <= 1

(* One connection has had two requests published, and a connection of the  *)
(* other ring one.                                                         *)
C12_Witness ==
    \E c \in CONNS, q \in QI :
        /\ Cardinality({i \in 1..Len(enqLog[q]) :
                          enqLog[q][i].payload \in Range(readLog[c])}) >= 2
        /\ \E k \in QI \ {q} : Len(enqLog[k]) >= 1

(* C13: a step of a send thread leaves the registered set, count and the   *)
(* descriptors as they are, and the step that ends a send, failed or not,  *)
(* takes the thread back to the top of its loop: about to pop when an      *)
(* entry is waiting in its ring, asleep otherwise.                         *)
C13_SendThreadFrame ==
    [][\A q \in QI :
         SendThreadStep(q) =>
            /\ epoll' = epoll /\ count' = count /\ fdtab' = fdtab
            /\ spc[q] = "send" =>
                  spc'[q] = IF g_queue[q].last # g_queue[q].front
                            THEN "lock" ELSE "cond_wait"]_vars

(* A send has failed on a connection that is open and registered: the      *)
(* thread popped one entry, sent nothing and is back at the top of its     *)
(* loop.                                                                   *)
C13_Witness ==
    \E q \in QI :
        /\ Len(deqLog[q]) = 1
        /\ spc[q] \in {"lock", "cond_wait"}
        /\ \A c \in CONNS : sentLog[c] = <<>>
        /\ deqLog[q][1].acc \in epoll /\ IsOpen(deqLog[q][1].acc)
        /\ closes = [c \in CONNS |-> 0]
        /\ count = Cardinality(epoll) /\ count >= 1

----------------------------------------------------------------------------
(* Who uses a connection handle.                                           *)

(* The handle send_thread(q) is about to send on, 0 when it is not sending *)
SendingOn(q) == IF spc[q] = "send" THEN Slot(q, si[q]).acc ELSE 0

(* C14: while a send thread is sending on a handle, accept_loop is neither *)
(* receiving on that handle nor tearing it down.                           *)
C14_HandleUsedByOneThread ==
    \A q \in QI :
        (prog = "server9" /\ pc \in {"recv", "switch"}) => SendingOn(q) # fd

(* The connection a popped entry was read from: the requests of a run are  *)
(* all different, so the payload tells; 0 when it is no request read.      *)
ReadFrom(e) ==
    IF \E c \in CONNS : e.payload \in Range(readLog[c])
    THEN CHOOSE c \in CONNS : e.payload \in Range(readLog[c])
    ELSE 0

(* C15: when a send thread calls send for an entry it popped, the          *)
(* connection the entry was read from is still open on the entry's handle: *)
(* accept_loop has not closed it.                                          *)
C15_NoSendAfterTeardown ==
    [][\A q \in QI :
         (SendThreadStep(q) /\ spc[q] = "send" /\ deqLog[q] # <<>>) =>
            LET e == deqLog[q][Len(deqLog[q])]
            IN  ReadFrom(e) # 0 => fdtab[e.acc] = ReadFrom(e)]_vars

----------------------------------------------------------------------------
(* Errors in accept_loop.                                                  *)

(* An accept_loop step in which a connection was accepted below the limit  *)
(* and is not open afterwards: its registration failed.                    *)
RegistrationFailed ==
    /\ nconn' = nconn + 1
    /\ ~IsFull(count)
    /\ ~IsOpen(acc)'

(* C16: when the registration of a just-accepted connection fails, the     *)
(* connection is closed, count and the registered set stay as they are,    *)
(* and accept_loop goes on polling.                                        *)
C16_RegistrationFailureIsLocal ==
    [][RegistrationFailed =>
         /\ closes'[nconn'] = 1
         /\ count' = count /\ epoll' = epoll
         /\ pc' = "epoll_wait"]_vars

(* C17: a step of the running accept_loop that handles the end of one     *)
(* connection (no connection is accepted in it) removes at most that       *)
(* connection from the registered set, and accept_loop does not return in  *)
(* it.                                                                     *)
C17_TeardownFailureIsLocal ==
    [][(pc # "returned" /\ nconn' = nconn) =>
         /\ pc' # "returned"
         /\ Cardinality(epoll \ epoll') <= 1]_vars

(* C18: when the recv accept_loop is handling was interrupted, the step    *)
(* that ends the handling leaves the connection registered and open and    *)
(* count as it is, publishes nothing, and accept_loop polls again.         *)
C18_InterruptedRecvRetried ==
    [][(prog = "server9" /\ pc = "switch" /\ intr /\ pc' # pc) =>
         /\ pc' = "epoll_wait"
         /\ epoll' = epoll /\ fdtab' = fdtab /\ count' = count
         /\ \A q \in QI : g_queue'[q].last = g_queue[q].last]_vars

(* C20: whenever accept_loop is at the top of its loop, the registered     *)
(* descriptors are the open connection descriptors, their connections are  *)
(* the admitted connections that have not been closed, one descriptor      *)
(* each, and count is their number.                                        *)
C20_RegistryIsLiveSet ==
    pc = "epoll_wait" =>
        /\ epoll = {f \in FDS : IsOpen(f)}
        /\ {fdtab[f] : f \in epoll} = {c \in admitted : closes[c] = 0}
        /\ \A f \in epoll, g \in epoll : fdtab[f] = fdtab[g] => f = g
        /\ count = Cardinality(epoll)
        /\ count >= 0

(* Two connections are registered after two others have gone: one turned   *)
(* away or torn down, one torn down.                                       *)
C20_Witness ==
    /\ pc = "epoll_wait"
    /\ count = 2 /\ Cardinality(epoll) = 2
    /\ nconn = MaxConn
    /\ \E c \in admitted : closes[c] = 1 /\ decs[c] = 1

----------------------------------------------------------------------------
(* Who waits for whom in server9.                                          *)

(* accept_loop can take its next step *)
LoopCanStep ==
    /\ (pc = "epoll_wait" /\ nconn < MaxConn) => ENABLED (AcceptFull \/ AcceptRegister)
    /\ pc = "epoll_wait" => \A f \in epoll : ENABLED ConnReady(f)
    /\ (pc = "recv" /\ nread < MaxRecv) => ENABLED RecvData
    /\ pc = "switch" => ENABLED (Enqueue \/ Teardown)

(* send_thread(q) can take its next step where it calls something that    *)
(* may wait, pthread_mutex_lock or send (building a response calls         *)
(* nothing that waits); in pthread_cond_wait it sleeps until an entry is   *)
(* published to its ring.                                                  *)
SendThreadCanStep(q) ==
    /\ spc[q] = "lock" => ENABLED (Dequeue(q) \/ CondWait(q))
    /\ spc[q] = "send" => ENABLED (Send(q) \/ SendFails(q))

(* Responses transmitted so far, and entries popped so far *)
NumSent == LET F[c \in 0..MaxConn] == IF c = 0 THEN 0 ELSE Len(sentLog[c]) + F[c - 1]
           IN  F[MaxConn]

NumPopped == LET F[n \in 0..MAXSENDER] == IF n = 0 THEN 0 ELSE Len(deqLog[n - 1]) + F[n - 1]
             IN  F[MAXSENDER]

(* C19: at all times, wherever the send threads are, in particular with    *)
(* one of them not moving on from its send, accept_loop can accept, read   *)
(* and enqueue and                                                         *)
(* the other send threads can go on; and accept_loop transmits nothing: at *)
(* most one transmission has been made per entry popped by a send thread.  *)
C19_StalledSenderBlocksNoOne ==
    [](prog = "server9" =>
          /\ LoopCanStep
          /\ \A q \in QI : SendThreadCanStep(q)
          /\ NumSent <= NumPopped)

(* While send_thread(k) has not come back from a send, accept_loop has     *)
(* published another entry to ring k behind it, and the send thread of     *)
(* another ring has popped an entry and transmitted its response.          *)
C19_Witness ==
    \E k \in QI :
        /\ spc[k] = "send"
        /\ Len(enqLog[k]) = 2 /\ Len(deqLog[k]) = 1
        /\ \A c \in CONNS : sentLog[c] # <<>> => Len(sentLog[c]) = 1
        /\ \E j \in QI \ {k} :
              /\ Len(deqLog[j]) = 1
              /\ \E c \in CONNS : sentLog[c] = <<RespOf(deqLog[j][1].payload)>>

----------------------------------------------------------------------------
(* What daemonize returns, and in which process.                           *)

(* C21: a process whose fork failed has returned -1 from daemonize; only   *)
(* the child of the second fork returns 0; and the caller and the child of *)
(* the first fork come back from daemonize in no other case.               *)
C21_ReturnsOfDaemonize ==
    \A p \in PROCS :
        /\ proc[p].failed => (proc[p].pc = "returned" /\ proc[p].ret = -1)
        /\ (proc[p].pc = "returned" /\ proc[p].ret = 0) => p = "daemon"
        /\ (proc[p].pc = "returned" /\ p # "daemon") => proc[p].failed

----------------------------------------------------------------------------
(* What accept_loop does with the result of a read.                        *)

(* accept_loop leaves the switch on the result of its read and goes on     *)
(* with its loop                                                           *)
SwitchDone == prog = "server9" /\ pc = "switch" /\ pc' = "epoll_wait"

(* C22: when the read returned 0 or -1, the step accept_loop takes on it   *)
(* (EPOLL_CTL_DEL succeeding) deregisters and closes the handle and        *)
(* decrements count by one, and it changes front and last of no ring and   *)
(* publishes no entry.                                                     *)
C22_EndOfStreamTearsDown ==
    [][(SwitchDone /\ req = <<>>) =>
          /\ epoll' = epoll \ {fd}
          /\ ~IsOpen(fd)'
          /\ count' = count - 1
          /\ \A q \in QI : /\ g_queue'[q].front = g_queue[q].front
                           /\ g_queue'[q].last = g_queue[q].last
          /\ enqLog' = enqLog]_vars

(* C23: when the read on handle fd returned n > 0 bytes, the step          *)
(* accept_loop takes on it publishes the entry (fd, the bytes, n): the     *)
(* slot at last of ring fd % MAXSENDER holds it, that ring's last moves on *)
(* by one modulo MAXQUEUESZ and its sleeping send thread is woken; front,  *)
(* the other rings, the registered set and count stay as they are.         *)
C23_DataIsPublished ==
    [][(SwitchDone /\ req # <<>>) =>
          LET qi == fd % MAXSENDER
              l  == g_queue[qi].last
          IN  /\ Slot(qi, l).acc = fd
              /\ Slot(qi, l).len = Len(req)
              /\ EntryBytes(Slot(qi, l)) = req
              /\ g_queue'[qi] = [g_queue[qi] EXCEPT !.last = (l + 1) % MAXQUEUESZ]
              /\ spc[qi] = "cond_wait" => spc'[qi] = "lock"
              /\ \A q \in QI \ {qi} : g_queue'[q] = g_queue[q]
              /\ epoll' = epoll
              /\ count' = count]_vars

----------------------------------------------------------------------------
(* How a send thread takes entries from its ring.                          *)

(* C24: a send thread sleeps in pthread_cond_wait only while its ring has  *)
(* front = last, and a sleeping thread goes nowhere but back to the check; *)
(* front moves, i is set and an entry is taken only in the step that found *)
(* front # last under the mutex, and that step takes the slot at front and *)
(* an entry that was published and not yet taken.                          *)
C24_PopsOnlyWhenNotEmpty ==
    /\ [](\A q \in QI : spc[q] = "cond_wait" => g_queue[q].front = g_queue[q].last)
    /\ [][\A q \in QI :
            /\ (spc[q] = "cond_wait" /\ spc'[q] # spc[q]) => spc'[q] = "lock"
            /\ (spc[q] = "lock" /\ g_queue[q].front = g_queue[q].last /\ spc'[q] # spc[q])
                  => spc'[q] = "cond_wait"
            /\ (\/ g_queue'[q].front # g_queue[q].front
                \/ si'[q] # si[q]
                \/ deqLog'[q] # deqLog[q]
                \/ spc'[q] = "build" /\ spc[q] # "build")
                  => /\ spc[q] = "lock"
                     /\ g_queue[q].front # g_queue[q].last
                     /\ Pending(q) > 0
                     /\ si'[q] = g_queue[q].front
                     /\ g_queue'[q].front = QUEUE_NEXT(g_queue[q].front)
                     /\ Len(deqLog'[q]) = Len(deqLog[q]) + 1]_vars

(* A send thread sleeps on its empty ring after it has taken two entries   *)
(* from it, the second one published while it slept or worked.             *)
C24_Witness ==
    \E q \in QI :
        /\ spc[q] = "cond_wait"
        /\ Len(deqLog[q]) = 2 /\ Len(enqLog[q]) = 2
        /\ g_queue[q].front = g_queue[q].last

(* C25: with the send threads scheduled and their sends returning, the     *)
(* n-th entry published to a ring is eventually taken from it by the       *)
(* ring's send thread, for every ring and every n.                          *)
C25_EnqueuedIsEventuallySent ==
    \A q \in QI : \A n \in 1..MaxRecv :
        (Len(enqLog[q]) >= n) ~> (Len(deqLog[q]) >= n)

(* The slot send_thread(q) has claimed and whose send has not returned, -1 *)
(* when it has none                                                        *)
Claimed(q) == IF spc[q] \in {"build", "send"} THEN si[q] ELSE -1

(* C26: while accept_loop handles a ready connection, the slot it writes   *)
(* handle, bytes and length to, the one at last of the connection's ring,  *)
(* is not the slot that ring's send thread has claimed.                    *)
C26_ClaimedSlotIsPrivate ==
    (prog = "server9" /\ pc \in {"recv", "switch"}) =>
        g_queue[Shard(fd)].last # Claimed(Shard(fd))

(* C27: no response to a request read from one connection is transmitted   *)
(* on another connection.                                                  *)
C27_ResponseGoesToItsConnection ==
    \A c \in CONNS : \A i \in 1..Len(sentLog[c]) :
        \A a \in CONNS \ {c} : \A j \in 1..Len(readLog[a]) :
            sentLog[c][i] # RespOf(readLog[a][j])

----------------------------------------------------------------------------
(* The response and the size of the buffer.                                *)

(* s ends with t *)
IsSuffix(t, s) == Len(t) <= Len(s) /\ SubSeq(s, Len(s) - Len(t) + 1, Len(s)) = t

(* C28: the bytes transmitted for a request of 1 up to BUFSZ bytes end     *)
(* with the whole of ":OK\r\n".                                            *)
C28_ResponseEndsWithSuffix ==
    rpc = "done" => IsSuffix(SUFFIX, out)

(* C29: where the responder is about to write the terminator, buf[len] = 0 *)
(* after a recv that returned len > 0, the index len is below the size of  *)
(* the buffer.                                                             *)
C29_TerminatorInsideBuffer ==
    (rpc = "terminate" /\ len > 0) => len < BUFSZ

----------------------------------------------------------------------------
(* Polls and accepts that bring nothing.                                   *)

(* A step of accept_loop from the poll in which no connection was accepted *)
(* and no event of a connection was taken up                               *)
NothingArrived ==
    /\ Server /\ pc = "epoll_wait" /\ pc' # pc
    /\ nconn' = nconn /\ nread' = nread /\ fd' = fd

(* The registered set, count, the descriptors and the rings stay as they   *)
(* are                                                                     *)
LoopStateKept ==
    /\ epoll' = epoll
    /\ count' = count
    /\ fdtab' = fdtab
    /\ g_queue' = g_queue

(* C30: a poll that timed out or failed and an accept that failed leave    *)
(* the registered set, count and the rings as they are, and from there     *)
(* accept_loop goes back to polling, again with nothing changed; after an  *)
(* accept that failed with EINTR it does so without calling perror.        *)
C30_IdleRoundsChangeNothing ==
    /\ [][NothingArrived =>
            /\ pc' \in Idle
            /\ LoopStateKept
            /\ intr' => pc' = "continue"]_vars
    /\ [][(pc \in Idle /\ pc' # pc) => (pc' = "epoll_wait" /\ LoopStateKept)]_vars

(* An accept has been interrupted while two connections were registered    *)
(* and an entry was waiting in a ring.                                     *)
C30_Witness ==
    /\ prog = "server9"
    /\ pc = "continue" /\ intr /\ acc = -1
    /\ count = 2
    /\ \E q \in QI : g_queue[q].last # g_queue[q].front

----------------------------------------------------------------------------
(* server8 and server7 *)

InitLock ==
    /\ prog \in {"server8", "server7"}
    /\ InitLoop /\ InitQueue /\ InitHist /\ InitCall
    /\ NoDaemon /\ NoMux /\ NoThreads
    /\ InitLockServer

NextLock ==
    \/ Connect
    \/ Spawn
    \/ SpawnFails
    \/ \E w \in WORKERS : LockAccept(w)
    \/ \E w \in WORKERS : AcceptReturns(w)
    \/ \E w \in WORKERS : AcceptReturnsError(w)
    \/ \E w \in WORKERS : UnlockAfterError(w)
    \/ \E w \in WORKERS : UnlockAfterAccept(w)
    \/ \E w \in WORKERS : SendRecvLoopReturns(w)
    \/ \E w \in WORKERS : CloseAcc(w)

SpecLock == InitLock /\ [][NextLock]_vars

(* The workers inside accept() on the listening socket *)
InAccept == {w \in WORKERS : lk.pc[w] = "accept"}

(* C31: in server8 and server7 at most one of the NUM_CHILD threads or     *)
(* processes is inside accept() on the shared listening socket at any      *)
(* time, and the one that is holds the accept lock.                        *)
C31_OneInAccept ==
    prog \in {"server8", "server7"} =>
        /\ Cardinality(InAccept) <= 1
        /\ \A w \in InAccept : lk.g_lock = w

(* A worker is inside accept() while another one waits for the lock *)
C31_Witness ==
    /\ prog \in {"server8", "server7"}
    /\ \E w, v \in WORKERS : lk.pc[w] = "accept" /\ lk.pc[v] = "lock"

(* Where a worker is between taking the accept lock and releasing it *)
LockedPart == {"accept", "failed", "accepted"}

(* C32: in server8 accept_thread and server7 accept_loop the accept lock   *)
(* is released in the loop iteration that acquired it, after a successful  *)
(* accept and after a failed one: a worker that is back at the top of the  *)
(* loop, runs send_recv_loop for its connection or closes it does not hold *)
(* the lock, and server8's g_lock_id names the holder or nobody.           *)
C32_LockNotKept ==
    prog \in {"server8", "server7"} =>
        /\ \A w \in WORKERS : lk.pc[w] \notin LockedPart => lk.g_lock # w
        /\ lk.g_lock = 0 => lk.g_lock_id = -1

(* A worker runs send_recv_loop while another one is inside accept and a   *)
(* further connection waits in the backlog                                 *)
C32_Witness ==
    /\ prog \in {"server8", "server7"}
    /\ \E w, v \in WORKERS : lk.pc[w] = "send_recv_loop" /\ lk.pc[v] = "accept"
    /\ lk.backlog > 0

(* What a worker does on its own once it can: release the lock, close its  *)
(* connection                                                              *)
WorkerNext(w) == UnlockAfterError(w) \/ UnlockAfterAccept(w) \/ CloseAcc(w)

(* The scheduler lets main and every worker run; a worker that finds the   *)
(* lock free again and again is granted it in the end; accept on a         *)
(* backlog that holds a connection again and again returns one in the end. *)
(* Clients connect and end their connections when they like.               *)
SpecLockFair ==
    /\ SpecLock
    /\ WF_vars(Spawn \/ SpawnFails)
    /\ \A w \in WORKERS :
          /\ WF_vars(WorkerNext(w))
          /\ SF_vars(LockAccept(w))
          /\ SF_vars(AcceptReturns(w))

(* The worker runs and has no connection to serve *)
NotServing(w) == lk.pc[w] \in {"lock", "accept", "failed", "close"}

(* accept has just returned a connection to some worker *)
JustAccepted == \E w \in WORKERS : lk.pc[w] = "accepted"

(* A worker sleeps inside accept on an empty backlog *)
AcceptBlocked == lk.backlog = 0 /\ \E w \in WORKERS : lk.pc[w] = "accept"

----------------------------------------------------------------------------
(* The select server and server3 *)

InitMux ==
    /\ prog \in {"select", "server3"}
    /\ pc = "select"
    /\ count = 0 /\ epoll = {} /\ fdtab = [f \in FDS |-> 0]
    /\ acc = -1 /\ fd = -1 /\ intr = FALSE
    /\ InitQueue /\ InitHist /\ InitCall
    /\ NoDaemon /\ NoLock /\ NoThreads
    /\ InitMuxServer

NextMux ==
    \/ MuxNothing
    \/ \E m \in SUBSET ({SOC} \cup FDS) : MuxReady(m)
    \/ MuxAcceptFails
    \/ MuxAcceptStore
    \/ MuxAcceptFull
    \/ ChildOk
    \/ ChildFails
    \/ ChildrenDone

SpecMux == InitMux /\ [][NextMux]_vars

(* C34: in the select server and server3 a connection accepted while fewer *)
(* than MAX_CHILD connections are held is stored in child[] and monitored, *)
(* and a connection is closed as "child is full" only when MAX_CHILD       *)
(* connections are held already.                                           *)
C34_HoldsUpToMaxChild ==
    [][(Mux /\ nconn' = nconn + 1) =>
          /\ Cardinality(Held) < MAX_CHILD =>
                 (nconn' \in admitted' /\ acc' \in Watched')
          /\ nconn' \in rejected' => Cardinality(Held) = MAX_CHILD]_vars

(* The slots below child_no that hold descriptor f *)
SlotsOf(f) == {k \in 0..(mx.child_no - 1) : mx.child[k] = f}

(* C35: in the select server and server3, all the time, every accepted     *)
(* connection that is not closed yet occupies exactly one slot of child[]  *)
(* below child_no, every slot that is not empty lies below child_no and    *)
(* holds an open connection, no descriptor is in two slots, and an         *)
(* accepted connection that got no slot is closed.                         *)
C35_ChildTable ==
    Mux =>
        /\ mx.child_no \in 0..MAX_CHILD
        /\ \A f \in FDS : IsOpen(f) => Cardinality(SlotsOf(f)) = 1
        /\ \A k \in ChildIndex :
              mx.child[k] # -1 => k < mx.child_no /\ IsOpen(mx.child[k])
        /\ \A k, j \in ChildIndex :
              mx.child[k] # -1 /\ mx.child[k] = mx.child[j] => k = j
        /\ \A c \in 1..nconn :
              c \notin admitted =>
                  c \in rejected /\ closes[c] = 1 /\ \A f \in FDS : fdtab[f] # c

(* A connection was closed for want of a slot, a slot below child_no has   *)
(* become free again and another one is in use                             *)
C35_Witness ==
    /\ Mux /\ pc = "select"
    /\ rejected # {}
    /\ \E k, j \in 0..(mx.child_no - 1) : mx.child[k] = -1 /\ mx.child[j] # -1

----------------------------------------------------------------------------
(* The three servers that call send_recv from their readiness loop:        *)
(* server4, the select server and server3.                                 *)

InitServe == (Init /\ prog = "server4") \/ InitMux

NextServe ==
    \/ AcceptFull
    \/ AcceptRegister
    \/ AcceptAddFails
    \/ PollAgain
    \/ \E f \in FDS : SendRecv(f)
    \/ \E f \in FDS, cause \in {"eof", "recv", "send"} : SendRecvFails(f, cause)
    \/ \E f \in FDS, cause \in {"eof", "recv", "send"} : SendRecvDelFails(f, cause)
    \/ NextMux

SpecServe == InitServe /\ [][NextServe]_vars

(* The connection descriptors the loop waits for *)
Monitored == IF prog = "server4" THEN epoll ELSE Watched

(* The loop's send_recv call on descriptor f returns -1 and the loop goes  *)
(* on (in server4: EPOLL_CTL_DEL succeeds)                                 *)
StepFails(f) ==
    \/ \E cause \in {"eof", "recv", "send"} : SendRecvFails(f, cause)
    \/ Mux /\ ChildFails /\ f = LoopFd(NextReady)

(* The loop's send_recv call on descriptor f returns 0 *)
StepSucceeds(f) ==
    \/ SendRecv(f)
    \/ Mux /\ ChildOk /\ f = LoopFd(NextReady)

MostEvents == Min(MAX_CHILD + 1, 1 + Cardinality(epoll))

----------------------------------------------------------------------------
(* server6 *)

InitThread ==
    /\ prog = "server6"
    /\ pc = "accept"
    /\ count = 0 /\ epoll = {} /\ fdtab = [f \in FDS |-> 0]
    /\ acc = -1 /\ fd = -1 /\ intr = FALSE
    /\ InitQueue /\ InitHist /\ InitCall
    /\ NoDaemon /\ NoLock /\ NoMux
    /\ InitThreadServer

NextThread ==
    \/ ThreadAcceptFails
    \/ AcceptSpawn
    \/ AcceptSpawnFails
    \/ \E c \in CONNS : ThreadServes(c)
    \/ \E c \in CONNS : ThreadBreaks(c)
    \/ \E c \in CONNS : ThreadCloses(c)

SpecThread == InitThread /\ [][NextThread]_vars

(* C38: in server6 every accepted connection is closed at most once, and   *)
(* only by its own thread after that thread left its loop; every accepted  *)
(* connection whose descriptor is open has a thread that serves it or is   *)
(* about to close it; and a connection whose thread has exited is closed.  *)
C38_ClosedByItsThread ==
    prog = "server6" =>
        \A c \in 1..nconn :
            /\ closes[c] <= 1
            /\ closes[c] = 1 => th[c] = "exited"
            /\ (\E f \in FDS : fdtab[f] = c) => th[c] \in {"recv", "close"}
            /\ th[c] = "exited" => closes[c] = 1 /\ \A f \in FDS : fdtab[f] # c

====
